---- MODULE Spec2Model ----
(***************************************************************************)
(* ext2-rs, src/parse.rs: the four constructors of a Superblock view        *)
(* (from_addr, from_addr_mut, from_bytes, from_bytes_mut) over a byte       *)
(* buffer owned by the caller, in the debug and in the release build.       *)
(*                                                                          *)
(* The record layout and EXT2_MAGIC live in crate::schema, which is not     *)
(* part of the sources at hand; a scaled-down layout (three little-endian   *)
(* fields, the u16 magic in the middle) stands in for it. Its alignment is  *)
(* unknown: every start address below counts as properly aligned.           *)
(***************************************************************************)
EXTENDS Integers, FiniteSets, Sequences, TLC

VARIABLES cfg, mem, views, status, last, trip

vars == <<cfg, mem, views, status, last, trip>>

(***************************************************************************)
(* Bounds of the model.                                                     *)
(***************************************************************************)
\* most views alive at once
MaxViews == 2

(***************************************************************************)
(* crate::schema: the record and its identity constant.                     *)
(***************************************************************************)
\* 0xEF53
EXT2_MAGIC == 61267

\* size_of::<Superblock>() of the scaled layout
RecordSize == 4

Fields == {"inodes_count", "magic", "state"}

Offset(f) == CASE f = "inodes_count" -> 0
               [] f = "magic"        -> 1
               [] f = "state"        -> 3

\* the magic is a u16; the scaled layout keeps one byte of the other fields
Width(f) == IF f = "magic" THEN 2 ELSE 1

\* the bytes of field f of a record at addr
FieldRange(addr, f) == (addr + Offset(f)) .. (addr + Offset(f) + Width(f) - 1)

\* the bytes of a whole record at addr
RecordRange(addr) == addr .. (addr + RecordSize - 1)

(***************************************************************************)
(* The caller's buffer: BufLen readable bytes at address 0. Bytes past its  *)
(* end are not the caller's to touch.                                       *)
(***************************************************************************)
BufLen == RecordSize

\* 0x53 and 0xEF: enough to spell the magic, its byte swap and two others
Byte == {83, 239}

\* start addresses a span or a pointer handed to a constructor can have
Starts == {0, 2}

\* the spans &buf[start .. start + len] of the buffer
SpanLens(start) == 0 .. (BufLen - start)

Readable(range) == range \subseteq (0 .. (BufLen - 1))

\* from_le_bytes / to_le_bytes: the target stores fields little-endian
RECURSIVE Decode(_)
Decode(bs) == IF bs = <<>> THEN 0 ELSE Head(bs) + 256 * Decode(Tail(bs))

RECURSIVE Encode(_, _)
Encode(v, w) == IF w = 0 THEN <<>> ELSE <<v % 256>> \o Encode(v \div 256, w - 1)

\* the values a field of w bytes can hold
Vals(w) == {Decode(bs) : bs \in [1 .. w -> Byte]}

\* the value the bytes of field f hold in memory m, for a record at addr
FieldAt(m, addr, f) == Decode([i \in 1 .. Width(f) |-> m[addr + Offset(f) + i - 1]])

(***************************************************************************)
(* Views: the references the constructors hand out. A view is no storage of *)
(* its own, only an address and a mutability; valid records whether the     *)
(* region has been written through another reference while it was alive.    *)
(***************************************************************************)
ViewKinds == [mut : BOOLEAN, addr : Starts, valid : BOOLEAN]

NoViews == [k \in ViewKinds |-> 0]

RECURSIVE SumOver(_, _)
SumOver(f, S) == IF S = {} THEN 0
                 ELSE LET k == CHOOSE x \in S : TRUE
                      IN  f[k] + SumOver(f, S \ {k})

Live(vs) == SumOver(vs, ViewKinds)

Overlap(a, range) == RecordRange(a) \cap range # {}

\* "at most one mutable view, or any number of immutable views, never both",
\* over every pair of views whose records share a byte
Exclusive(vs) ==
    \A k \in ViewKinds :
        (k.mut /\ vs[k] > 0) =>
            /\ vs[k] = 1
            /\ \A j \in ViewKinds :
                  (j # k /\ vs[j] > 0) => RecordRange(j.addr) \cap RecordRange(k.addr) = {}

(***************************************************************************)
(* Loads and stores through a reference. A load of bytes outside the buffer *)
(* or through a reference invalidated by an aliasing write is undefined:    *)
(* the build faults or yields some value.                                   *)
(***************************************************************************)
Loaded(v) == [fault |-> FALSE, val |-> v]

LoadFault == [fault |-> TRUE, val |-> 0]

AnyLoaded(f) == {Loaded(v) : v \in Vals(Width(f))}

\* what reading field f of the record at addr can yield, in memory m
Load(m, addr, f) ==
    IF Readable(FieldRange(addr, f))
    THEN {Loaded(FieldAt(m, addr, f))}
    ELSE {LoadFault} \cup AnyLoaded(f)

\* what reading field f through view k can yield, in memory m
ViewLoad(m, k, f) ==
    IF k.valid THEN Load(m, k.addr, f)
    ELSE IF Readable(FieldRange(k.addr, f)) THEN AnyLoaded(f)
    ELSE {LoadFault} \cup AnyLoaded(f)

\* memory m with v stored in field f of the record at addr
Stored(m, addr, f, v) ==
    [a \in DOMAIN m |->
        IF a \in FieldRange(addr, f)
        THEN Encode(v, Width(f))[a - (addr + Offset(f)) + 1]
        ELSE m[a]]

(***************************************************************************)
(* The constructors, src/parse.rs. Each yields the set of results the call  *)
(* can have: outcome "view" with the reference returned, "panic" (the       *)
(* debug assertion) or "fault" (the load of the assertion faulted), and the *)
(* memory the call leaves behind.                                           *)
(***************************************************************************)
debug_assertions == cfg = "debug"

Returned(v) == [outcome |-> "view", ret |-> {v}, mem |-> mem]

Panicked == [outcome |-> "panic", ret |-> {}, mem |-> mem]

Faulted == [outcome |-> "fault", ret |-> {}, mem |-> mem]

\* whether the caller runs on after a call or an access with this outcome
StatusAfter(outcome) ==
    IF outcome = "panic" THEN "panicked"
    ELSE IF outcome = "fault" THEN "faulted"
    ELSE "running"

\* faulty variant: debug_assert_ne! in place of debug_assert_eq!
DebugAssertMagic_ne(ret) ==
    IF debug_assertions
    THEN {IF x.fault THEN Faulted
          ELSE IF x.val # EXT2_MAGIC THEN Returned(ret)
          ELSE Panicked : x \in Load(mem, ret.addr, "magic")}
    ELSE {Returned(ret)}

\* faulty variant: assert_eq! in place of debug_assert_eq!, checked in every build
DebugAssertMagic_always(ret) ==
    {IF x.fault THEN Faulted
     ELSE IF x.val = EXT2_MAGIC THEN Returned(ret)
     ELSE Panicked : x \in Load(mem, ret.addr, "magic")}

\* debug_assert_eq!(ret.magic, EXT2_MAGIC); ret
DebugAssertMagic(ret) ==
    IF debug_assertions
    THEN {IF x.fault THEN Faulted
          ELSE IF x.val = EXT2_MAGIC THEN Returned(ret)
          ELSE Panicked : x \in Load(mem, ret.addr, "magic")}
    ELSE {Returned(ret)}

\* faulty variant: a checked constructor that answers a bad magic with no view
\* instead of trusting the caller or aborting
from_addr_option(addr) ==
    LET ret == [mut |-> FALSE, addr |-> addr, valid |-> TRUE]
    IN  {IF x.fault THEN Faulted
         ELSE IF x.val = EXT2_MAGIC THEN Returned(ret)
         ELSE [outcome |-> "none", ret |-> {}, mem |-> mem] :
            x \in Load(mem, addr, "magic")}

from_addr(addr) ==
    LET ptr == addr
        ret == [mut |-> FALSE, addr |-> ptr, valid |-> TRUE]
    IN  DebugAssertMagic(ret)

\* faulty variant: the mutable variant without the identity check
from_addr_mut_unchecked(addr) ==
    {Returned([mut |-> TRUE, addr |-> addr, valid |-> TRUE])}

\* faulty variant: the constructor repairs the record, stamping EXT2_MAGIC into it
from_addr_mut_stamping(addr) ==
    LET ret == [mut |-> TRUE, addr |-> addr, valid |-> TRUE]
    IN  IF Readable(FieldRange(addr, "magic"))
        THEN {[outcome |-> "view", ret |-> {ret},
               mem |-> [a \in DOMAIN mem |->
                          IF a \in FieldRange(addr, "magic")
                          THEN Encode(EXT2_MAGIC, 2)[a - (addr + Offset("magic")) + 1]
                          ELSE mem[a]]]}
        ELSE DebugAssertMagic(ret)

\* faulty variant: a borrow flag, the call panics while another view of the bytes
\* is live
from_addr_mut_exclusive(addr) ==
    LET ret == [mut |-> TRUE, addr |-> addr, valid |-> TRUE]
    IN  IF \E k \in ViewKinds :
              views[k] > 0 /\ RecordRange(k.addr) \cap RecordRange(addr) # {}
        THEN {Panicked}
        ELSE DebugAssertMagic(ret)

from_addr_mut(addr) ==
    LET ptr == addr
        ret == [mut |-> TRUE, addr |-> ptr, valid |-> TRUE]
    IN  DebugAssertMagic(ret)

\* faulty variant: the span's end, bytes.as_ptr_range().end
as_ptr_end(start, len) == start + len

\* bytes.as_ptr() of the span of len bytes at start
as_ptr(start, len) == start

\* faulty variant: spans shorter than the record are rejected
from_bytes_checked(start, len) ==
    IF len < RecordSize THEN {Panicked} ELSE from_addr(as_ptr(start, len))

from_bytes(start, len) ==
    LET addr == as_ptr(start, len)
    IN  from_addr(addr)

from_bytes_mut(start, len) ==
    LET addr == as_ptr(start, len)
    IN  from_addr_mut(addr)

(***************************************************************************)
(* The state machine: a caller that constructs views, reads and writes      *)
(* fields through them and drops them, until a call aborts.                 *)
(***************************************************************************)
Ctors == {"from_addr", "from_addr_mut", "from_bytes", "from_bytes_mut"}

MutCtors == {"from_addr_mut", "from_bytes_mut"}

\* the reference constructor op hands out for the record at addr
NewView(op, addr) == [mut |-> op \in MutCtors, addr |-> addr, valid |-> TRUE]

\* trip follows the round trip "construct a mutable view (stage 1), store one
\* field through it (2), drop it (3), construct a view again (4)" at one
\* address, with the memory the trip started from; stage 0 is no trip.
NoTrip == [stage |-> 0, addr |-> 0, field |-> "none", value |-> 0, orig |-> <<>>]

Init ==
    /\ cfg \in {"debug", "release"}
    /\ mem \in [0 .. (BufLen - 1) -> Byte]
    /\ views = NoViews
    /\ status = "running"
    /\ last = [op |-> "init", addr |-> 0, len |-> 0, field |-> "none",
               value |-> 0, outcome |-> "none"]
    /\ trip = NoTrip

\* the caller's state after a constructor call with result r
Construct(op, addr, len, r) ==
    /\ last' = [op |-> op, addr |-> addr, len |-> len, field |-> "none",
                value |-> 0, outcome |-> r.outcome]
    /\ status' = StatusAfter(r.outcome)
    /\ mem' = r.mem
    /\ views' = [k \in ViewKinds |->
                    IF k \in r.ret THEN views[k] + 1 ELSE views[k]]
    /\ trip' = IF r.outcome # "view" THEN NoTrip
               ELSE IF trip.stage = 3 /\ trip.addr = addr
                    THEN [trip EXCEPT !.stage = 4]
               ELSE IF op \in MutCtors
                    THEN [stage |-> 1, addr |-> addr, field |-> "none", value |-> 0,
                          orig |-> r.mem]
               ELSE NoTrip
    /\ UNCHANGED cfg

CanCall == status = "running" /\ Live(views) < MaxViews

FromAddr(addr) ==
    /\ CanCall
    /\ \E r \in from_addr(addr) : Construct("from_addr", addr, 0, r)

FromAddrMut(addr) ==
    /\ CanCall
    /\ \E r \in from_addr_mut(addr) : Construct("from_addr_mut", addr, 0, r)

FromBytes(start, len) ==
    /\ CanCall
    /\ \E r \in from_bytes(start, len) : Construct("from_bytes", start, len, r)

FromBytesMut(start, len) ==
    /\ CanCall
    /\ \E r \in from_bytes_mut(start, len) : Construct("from_bytes_mut", start, len, r)

\* the views after view w stored into the bytes of range: every other view
\* over some of those bytes is invalidated
AfterStore(w, range) ==
    [k \in ViewKinds |->
        LET fresh  == [k EXCEPT !.valid = TRUE]
            others == views[fresh] - (IF fresh = w THEN 1 ELSE 0)
        IN  IF ~Overlap(k.addr, range) THEN views[k]
            ELSE IF k.valid THEN (IF k = w /\ views[k] > 0 THEN 1 ELSE 0)
            ELSE views[k] + others]

\* faulty variant: the view is a copy of the record, the store lands in the copy
store_private(w, f, v) == {[outcome |-> "ok", mem |-> mem]}

\* faulty variant: the identity is checked on use, a store that breaks it panics
store_checked(w, f, v) ==
    IF debug_assertions /\ f = "magic" /\ v # EXT2_MAGIC
    THEN {[outcome |-> "panic", mem |-> mem]}
    ELSE IF Readable(FieldRange(w.addr, f))
    THEN {[outcome |-> "ok", mem |-> Stored(mem, w.addr, f, v)]}
    ELSE {[outcome |-> "fault", mem |-> mem], [outcome |-> "lost", mem |-> mem]}

\* what the store sb.field = v through the mutable view w can do: land in
\* the buffer, fault, or land in bytes that are not the buffer's
store(w, f, v) ==
    IF Readable(FieldRange(w.addr, f))
    THEN {[outcome |-> "ok", mem |-> Stored(mem, w.addr, f, v)]}
    ELSE {[outcome |-> "fault", mem |-> mem], [outcome |-> "lost", mem |-> mem]}

WriteField(w, f, v) ==
    /\ status = "running"
    /\ w.mut
    /\ views[w] > 0
    /\ \E r \in store(w, f, v) :
          /\ mem' = r.mem
          /\ status' = StatusAfter(r.outcome)
          /\ views' = IF r.outcome \in {"ok", "lost"}
                      THEN AfterStore(w, FieldRange(w.addr, f))
                      ELSE views
          /\ last' = [op |-> "write", addr |-> w.addr, len |-> 0, field |-> f,
                      value |-> v, outcome |-> r.outcome]
          /\ trip' = IF r.outcome = "ok" /\ trip.stage = 1 /\ trip.addr = w.addr
                        /\ w.valid
                     THEN [trip EXCEPT !.stage = 2, !.field = f, !.value = v]
                     ELSE NoTrip
    /\ UNCHANGED cfg

\* the end of a view's lifetime 'a
DropView(k) ==
    /\ status = "running"
    /\ views[k] > 0
    /\ views' = [views EXCEPT ![k] = @ - 1]
    /\ last' = [op |-> "drop", addr |-> k.addr, len |-> 0, field |-> "none",
                value |-> 0, outcome |-> "ok"]
    /\ trip' = IF trip.stage = 2 /\ trip.addr = k.addr /\ k.mut /\ k.valid
               THEN [trip EXCEPT !.stage = 3]
               ELSE NoTrip
    /\ UNCHANGED <<cfg, mem, status>>

Next ==
    \/ \E addr \in Starts : FromAddr(addr)
    \/ \E addr \in Starts : FromAddrMut(addr)
    \/ \E start \in Starts : \E len \in SpanLens(start) : FromBytes(start, len)
    \/ \E start \in Starts : \E len \in SpanLens(start) : FromBytesMut(start, len)
    \/ \E w \in ViewKinds : \E f \in Fields : \E v \in Vals(Width(f)) : WriteField(w, f, v)
    \/ \E k \in ViewKinds : DropView(k)

Spec == Init /\ [][Next]_vars

(***************************************************************************)
(* Properties.                                                              *)
(***************************************************************************)
\* the magic field of the record at addr lies in the caller's buffer
MagicReadable(addr) == Readable(FieldRange(addr, "magic"))

\* the magic field of the record at addr, in memory m, is not EXT2_MAGIC
Mismatch(m, addr) == MagicReadable(addr) /\ FieldAt(m, addr, "magic") # EXT2_MAGIC

\* the buffer holds a whole record at addr and its magic is EXT2_MAGIC
WellFormed(addr) ==
    Readable(RecordRange(addr)) /\ FieldAt(mem, addr, "magic") = EXT2_MAGIC

\* the last step was a call of a constructor
CtorCalled == last.op \in Ctors

\* C1: from_bytes on a span that holds a well-formed record (its magic field
\* is EXT2_MAGIC) returns a view, in debug and in release, and the magic read
\* through that view is EXT2_MAGIC.
C1_WellFormedLoads ==
    (last.op = "from_bytes" /\ last.len >= RecordSize /\ WellFormed(last.addr)) =>
        /\ last.outcome = "view"
        /\ status = "running"
        /\ views[NewView("from_bytes", last.addr)] >= 1
        /\ ViewLoad(mem, NewView("from_bytes", last.addr), "magic") = {Loaded(EXT2_MAGIC)}

C1_Witness ==
    /\ cfg = "debug"
    /\ last.op = "from_bytes" /\ last.len = RecordSize /\ WellFormed(last.addr)
    /\ last.outcome = "view"

\* C2: a slice-based constructor has exactly the results of the address-based
\* one on the span's start address: the same outcomes, and a view of the same
\* address and mutability, hence with the same value in every field.
C2_SliceIsAddress ==
    /\ \A start \in Starts : \A len \in SpanLens(start) :
          /\ from_bytes(start, len) = from_addr(start)
          /\ from_bytes_mut(start, len) = from_addr_mut(start)
    /\ (last.op \in {"from_bytes", "from_bytes_mut"} /\ last.outcome = "view") =>
          LET byAddr == IF last.op = "from_bytes" THEN "from_addr" ELSE "from_addr_mut"
              v      == NewView(last.op, last.addr)
          IN  /\ views[v] >= 1
              /\ v = NewView(byAddr, last.addr)
              /\ \A f \in Fields : ViewLoad(mem, v, f) = Load(mem, last.addr, f)

C2_Witness ==
    /\ last.op = "from_bytes_mut" /\ last.addr = 0 /\ last.len = RecordSize
    /\ last.outcome = "view"
    /\ cfg = "debug"

\* C3: after a mutable view stored v in field f and was dropped, an immutable
\* view constructed next over the same bytes reads v in f (no hidden copy).
C3_WriteVisible ==
    (trip.stage = 4 /\ last.op \in {"from_addr", "from_bytes"}) =>
        LET v == NewView(last.op, trip.addr)
        IN  /\ views[v] >= 1
            /\ ViewLoad(mem, v, trip.field) = {Loaded(trip.value)}
            /\ FieldAt(mem, trip.addr, trip.field) = trip.value

C3_Witness ==
    /\ trip.stage = 4 /\ last.op = "from_addr"
    /\ trip.field = "state"
    /\ FieldAt(trip.orig, trip.addr, "state") # trip.value

\* C4: in debug, each of the four constructors called on a region whose
\* magic field is not EXT2_MAGIC panics and hands out no view.
C4_DebugMismatchPanics ==
    [][(last'.op \in Ctors /\ cfg = "debug" /\ Mismatch(mem, last'.addr)) =>
          /\ last'.outcome = "panic"
          /\ status' = "panicked"
          /\ views' = views]_vars

C4_Witness ==
    /\ cfg = "debug"
    /\ last.op = "from_bytes_mut" /\ Mismatch(mem, last.addr)
    /\ status = "panicked"

\* C5: in release no identity check runs: each of the four constructors
\* called on a region whose magic field is not EXT2_MAGIC returns a view, and
\* the magic read through it is the corrupted value, unchanged.
C5_ReleaseUnchecked ==
    [][(last'.op \in Ctors /\ cfg = "release" /\ Mismatch(mem, last'.addr)) =>
          LET v == NewView(last'.op, last'.addr)
          IN  /\ last'.outcome = "view"
              /\ status' = "running"
              /\ views'[v] = views[v] + 1
              /\ ViewLoad(mem', v, "magic") = {Loaded(FieldAt(mem, last'.addr, "magic"))}]_vars

C5_Witness ==
    /\ cfg = "release"
    /\ last.op = "from_addr" /\ Mismatch(mem, last.addr)
    /\ last.outcome = "view"

\* C6: constructing or dropping a view writes no byte, a store to field f
\* changes the bytes of f only, and so after the round trip (construct a
\* mutable view, store a non-identity field f, drop, construct a view) only
\* the bytes of f differ from the buffer the trip started from: the magic
\* and every other field are as they were.
C6_TripFrame ==
    (trip.stage = 4 /\ trip.field # "magic") =>
        /\ \A a \in DOMAIN mem :
              a \notin FieldRange(trip.addr, trip.field) => mem[a] = trip.orig[a]
        /\ \A g \in Fields \ {trip.field} :
              Readable(FieldRange(trip.addr, g)) =>
                  FieldAt(mem, trip.addr, g) = FieldAt(trip.orig, trip.addr, g)

C6_StepFrame ==
    /\ (last'.op \in Ctors \cup {"drop"}) => mem' = mem
    /\ (last'.op = "write") =>
          \A a \in DOMAIN mem :
              a \notin FieldRange(last'.addr, last'.field) => mem'[a] = mem[a]

C6_Frame == [](C6_TripFrame) /\ [][C6_StepFrame]_vars

C6_Witness ==
    /\ trip.stage = 4 /\ trip.field = "inodes_count"
    /\ mem # trip.orig
    /\ WellFormed(trip.addr)

\* C7, as claimed: every constructor call either returns a view of the whole
\* record or aborts, and it aborts only in debug on a magic field that is
\* not EXT2_MAGIC.
C7_AsClaimed ==
    CtorCalled =>
        /\ last.outcome \in {"view", "panic"}
        /\ (last.outcome = "panic") =>
              (cfg = "debug" /\ (Mismatch(mem, last.addr) \/ ~MagicReadable(last.addr)))

\* C7, amended: every constructor call either returns a view of the whole
\* record or ends execution; it never yields an error value, an absent
\* result or a partial view. Execution ends only in debug: by the panic of
\* the identity check, on a magic field that is not EXT2_MAGIC or lies
\* outside the caller's buffer, or by a fault of the check's load, only when
\* the magic field lies outside the caller's buffer.
C7_AbortOrView ==
    CtorCalled =>
        /\ last.outcome \in {"view", "panic", "fault"}
        /\ (last.outcome = "view") =>
              (status = "running" /\ views[NewView(last.op, last.addr)] >= 1)
        /\ (last.outcome # "view") =>
              (cfg = "debug" /\ status # "running")
        /\ (last.outcome = "panic") =>
              (Mismatch(mem, last.addr) \/ ~MagicReadable(last.addr))
        /\ (last.outcome = "fault") => ~MagicReadable(last.addr)

C7_Witness ==
    /\ cfg = "debug"
    /\ last.op = "from_bytes" /\ last.len = 0 /\ ~MagicReadable(last.addr)
    /\ last.outcome = "fault"

\* C8: from_bytes and from_bytes_mut never compare the span's length with
\* the record's size: a span shorter than the record, the empty span too, is
\* not rejected, the result is the one of the address-based constructor on
\* the span's start, and in debug the check reads the magic at its offset
\* from the start even when that lies past the span's end.
C8_LengthUnchecked ==
    /\ \A start \in Starts : \A len \in SpanLens(start) :
          /\ from_bytes(start, len) = from_bytes(start, BufLen - start)
          /\ from_bytes_mut(start, len) = from_bytes_mut(start, BufLen - start)
    /\ (last.op \in {"from_bytes", "from_bytes_mut"} /\ last.len < RecordSize) =>
          /\ (cfg = "release") => last.outcome = "view"
          /\ (cfg = "debug" /\ MagicReadable(last.addr)) =>
                (last.outcome = "view" <=>
                    FieldAt(mem, last.addr, "magic") = EXT2_MAGIC)
          /\ (cfg = "debug" /\ MagicReadable(last.addr)) =>
                (last.outcome = "panic" <=>
                    FieldAt(mem, last.addr, "magic") # EXT2_MAGIC)

C8_Witness ==
    /\ cfg = "debug"
    /\ last.op = "from_bytes" /\ last.len = 0 /\ last.addr = 0
    /\ last.outcome = "panic"

\* a view other than one instance of v is live over bytes of the record at addr
AliasLive(vs, v) ==
    \E k \in ViewKinds :
        /\ vs[k] > (IF k = v THEN 1 ELSE 0)
        /\ RecordRange(k.addr) \cap RecordRange(v.addr) # {}
        /\ (k.mut \/ v.mut)

\* C9: nothing enforces exclusivity at run time. The outcome of an
\* address-based constructor depends on the build and on the magic field
\* only, never on the views that are live; a mutable view handed out while
\* another view of the region is live breaks "one mutable or many immutable
\* views, never both", and the rule breaks in no other way; two calls of
\* from_addr_mut on one address both return.
C9_StepNoEnforcement ==
    /\ (last'.op \in {"from_addr", "from_addr_mut"} /\ last'.outcome # "view") =>
          (cfg = "debug" /\ (Mismatch(mem, last'.addr) \/ ~MagicReadable(last'.addr)))
    /\ (last'.op \in {"from_addr", "from_addr_mut"}
          /\ (cfg = "release" \/ WellFormed(last'.addr))) =>
          LET v == NewView(last'.op, last'.addr)
          IN  /\ last'.outcome = "view"
              /\ views'[v] = views[v] + 1
              /\ AliasLive(views', v) => ~Exclusive(views')
    /\ (Exclusive(views) /\ ~Exclusive(views')) =>
          /\ last'.op \in Ctors /\ last'.outcome = "view"
          /\ AliasLive(views', NewView(last'.op, last'.addr))

\* whatever views are live, a call on a well-formed region, or in release on
\* any region, has one result: the view
C9_AlwaysGranted ==
    \A addr \in Starts :
        (cfg = "release" \/ WellFormed(addr)) =>
            /\ from_addr(addr) = {Returned(NewView("from_addr", addr))}
            /\ from_addr_mut(addr) = {Returned(NewView("from_addr_mut", addr))}

C9_NoEnforcement == [](C9_AlwaysGranted) /\ [][C9_StepNoEnforcement]_vars

C9_Witness ==
    /\ last.op = "from_addr_mut" /\ last.outcome = "view"
    /\ views[NewView("from_addr_mut", last.addr)] = 2
    /\ ~Exclusive(views)

\* C10: the identity check runs when a view is constructed, never when it is
\* used: a store of any value to the magic through a mutable view does not
\* abort and leaves the view live over a region with that magic, and a panic
\* is only ever the outcome of a constructor call in debug.
C10_StepNoCheckOnUse ==
    (last'.op = "write" /\ last'.field = "magic" /\ MagicReadable(last'.addr)) =>
        /\ last'.outcome = "ok"
        /\ status' = "running"
        /\ \E w \in ViewKinds : w.mut /\ w.addr = last'.addr /\ views'[w] >= 1
        /\ FieldAt(mem', last'.addr, "magic") = last'.value

C10_PanicOnlyAtCtor ==
    (status = "panicked") => (cfg = "debug" /\ CtorCalled /\ last.outcome = "panic")

C10_CheckAtConstruction == [](C10_PanicOnlyAtCtor) /\ [][C10_StepNoCheckOnUse]_vars

C10_Witness ==
    /\ cfg = "debug" /\ status = "running"
    /\ last.op = "write" /\ last.field = "magic" /\ last.value # EXT2_MAGIC
    /\ views[NewView("from_addr_mut", last.addr)] >= 1
    /\ Mismatch(mem, last.addr)

====
